---- MODULE Spec2Model ----
(***************************************************************************)
(* Multi-video display: the Flask command surface (src/server.py) and the  *)
(* Qt window that owns the video tracks (src/screen.py).                   *)
(*                                                                         *)
(* Request-handling threads check a request against videos_db, emit a Qt   *)
(* signal (a queued call into the Qt thread) and then update videos_db.    *)
(* The Qt thread takes the queued calls in order and runs the VideoWindow  *)
(* slots; it also runs the per-track player callbacks and timers.          *)
(*                                                                         *)
(* Numbers are the source's: positions in UI units, times in milliseconds. *)
(* Scale factors and angles are floats in the source; the model draws      *)
(* them from integral values, on which float() is exact.                   *)
(***************************************************************************)
EXTENDS Integers, Sequences, FiniteSets, TLC

(***************************************************************************)
(* Bounds of the model.                                                    *)
(***************************************************************************)
\* number of ids uuid4 can hand out in a run
MaxIds == 2
\* number of HTTP requests served in a run
MaxReq == 3
\* number of window resize events in a run
MaxResize == 1
\* number of player / timer events in a run of the loop controller
MaxEvents == 4
\* number of window method calls in a run of the transform pipeline
MaxCalls == 4

Ids == 1..MaxIds
Reqs == 1..MaxReq
Threads == {"t1", "t2"}

(***************************************************************************)
(* Program constants.                                                      *)
(***************************************************************************)
DefaultX == 200
DefaultY == 150
DefaultScale == 1
DefaultRotation == 0
StandardVideoWidth == 200
StandardVideoHeight == 150
XNorm == 400
YNorm == 300
FallbackWidth == 1920
FallbackHeight == 1080
LoopPointMs == 100
PositionCheckGapMs == 100
ForceLoopThresholdMs == 300
BackupLeadMs == 500
BackupMinMs == 2000

(***************************************************************************)
(* Inputs.                                                                 *)
(***************************************************************************)
\* (filepath, filename) pairs a request can carry; the last file does not exist
RequestFiles == {<<"a.mp4", "A">>, <<"b.mp4", "B">>, <<"missing.mp4", "M">>}
InitialFiles == {"a.mp4", "b.mp4"}
PosInputs == {<<100, 100>>, <<300, 50>>}
ScaleInputs == {<<2, 3>>}
RotInputs == {45}
\* widget sizes the window can take; the first is the size at start-up
ScreenSizes == {<<1920, 1080>>, <<800, 600>>}
InitialSize == <<1920, 1080>>
\* the geometry of the screen the window is on
ScreenGeometry == <<1920, 1080>>
\* duration in ms the player reports for each file: one shorter and one
\* longer than the least interval of the fallback timer
MediaDuration(path) == IF path = "a.mp4" THEN 1000 ELSE 3000
\* playback positions (ms) the player reports while a file of duration d
\* plays: early in the pass, and at each distance from the end that the loop
\* controller tests for
ReportedPositions == {100}
PositionSteps(d) ==
    {p \in ReportedPositions \cup {d - BackupLeadMs, d - LoopPointMs, d - 1} :
         p > 0 /\ p < d}

AllPositions == UNION {PositionSteps(MediaDuration(f[1])) : f \in RequestFiles}

VARIABLES
    videos_db,      \* server.py: video_id -> record of the command surface
    files,          \* paths that exist on disk
    queue,          \* queued signal emissions waiting for the Qt thread
    thr,            \* per request thread: what it is in the middle of
    nreq,           \* requests started so far
    resp,           \* request number -> the answer it got
    issued,         \* ids uuid4 has returned so far
    win,            \* the VideoWindow: videos, viewport, batch bookkeeping
    released,       \* VideoItem objects removed from win.videos
    nresize,        \* resize events so far
    nevents,        \* player / timer events so far
    got,            \* the answers of the latest get-videos request and of
                    \* the latest screen-dimensions request
    acked,          \* video_id -> rotation of the latest acknowledged command
    ignored,        \* requests whose queued call found no track to act on
    last_emitted,   \* video_id -> the values carried by the latest emitted calls
    applied_req,    \* video_id -> request number of the latest call delivered
    resize_joined   \* whether a resize arrived while a batch was pending

vars == <<videos_db, files, queue, thr, nreq, resp, issued, win, released,
          nresize, nevents, got, acked, ignored, last_emitted, applied_req,
          resize_joined>>

serverVars == <<videos_db, files, thr, nreq, resp, issued, got, acked,
                last_emitted>>
qtVars == <<win, released, nresize, nevents, ignored, applied_req,
            resize_joined>>

Max(a, b) == IF a >= b THEN a ELSE b

\* f without key k
Drop(f, k) == [i \in DOMAIN f \ {k} |-> f[i]]
\* f with key k bound to v
Put(f, k, v) == [i \in DOMAIN f \cup {k} |-> IF i = k THEN v ELSE f[i]]

(***************************************************************************)
(* Transform engine: VideoItem.get_cached_transform.  A QTransform is kept *)
(* as the list of the operations composed into it, in order.               *)
(***************************************************************************)
IdentityTransform == << >>

ComputeTransform(it, screen_width, screen_height, standard_width, standard_height) ==
    LET actual_x == (it.x * screen_width) \div XNorm
        actual_y == (it.y * screen_height) \div YNorm
        video_center_x == standard_width \div 2
        video_center_y == standard_height \div 2
    IN  << <<"translate", actual_x, actual_y>>,
           <<"translate", video_center_x, video_center_y>>,
           <<"rotate", it.rotation, 0>>,
           <<"scale", it.scale_x, it.scale_y>>,
           <<"translate", 0 - video_center_x, 0 - video_center_y>> >>

get_cached_transform(it, screen_width, screen_height, standard_width, standard_height) ==
    IF ~it.transform_dirty
    THEN it
    ELSE [it EXCEPT !.cached_transform =
                        ComputeTransform(it, screen_width, screen_height,
                                         standard_width, standard_height),
                    !.transform_dirty = FALSE]

\* a mark that leaves the flag as it is
keep_transform_flag(it) == it

mark_transform_dirty(it) == [it EXCEPT !.transform_dirty = TRUE]

(***************************************************************************)
(* VideoItem: loop controller.                                             *)
(***************************************************************************)
BackupInterval(duration) == Max(duration - BackupLeadMs, BackupMinMs)

\* QMediaPlayer.setMedia(path): the load is asynchronous; the player is
\* stopped at position 0 until the backend reports the media.
SetMedia(it, path) ==
    [it EXCEPT !.media = path, !.status = "LoadingMedia", !.position = 0,
               !.load_pending = TRUE, !.duration_pending = FALSE]

\* QTimer.start(interval) and QTimer.stop() on loop_timer
StartLoopTimer(it, interval) ==
    [it EXCEPT !.loop_timer = TRUE, !.loop_timer_interval = interval,
               !.loop_timer_left = interval, !.stalled = FALSE]
StopLoopTimer(it) == [it EXCEPT !.loop_timer = FALSE, !.loop_timer_left = 0]

\* the body runs in a try block: loop_timer.stop(), setPosition(0), play()
\* if the player is not playing, loop_timer.start(...).  A call of the player
\* that raises ends the body there; the exception is caught and printed.
perform_loop(it) ==
    LET stopped == StopLoopTimer(it)
        seeked == [stopped EXCEPT
                       !.position = 0,
                       !.status = IF it.status = "EndOfMedia"
                                  THEN "LoadedMedia" ELSE it.status]
        played == [seeked EXCEPT !.state = "PlayingState",
                                 !.pass_loops = it.pass_loops + 1,
                                 !.loops = it.loops + 1]
    IN  IF it.fault = "seek"
        THEN [stopped EXCEPT !.fault = "none", !.raised = it.raised + 1]
        ELSE IF it.fault = "play" /\ it.state # "PlayingState"
        THEN [seeked EXCEPT !.fault = "none", !.raised = it.raised + 1]
        ELSE IF it.duration > 0
        THEN StartLoopTimer(played, BackupInterval(it.duration))
        ELSE played

on_duration_changed(it, duration) ==
    LET d == [it EXCEPT !.duration = duration]
    IN  IF duration > 0
        THEN StartLoopTimer(d, BackupInterval(duration))
        ELSE d

check_near_end(it, position) ==
    IF position - it.last_position_check < PositionCheckGapMs
    THEN it
    ELSE LET c == [it EXCEPT !.last_position_check = position]
         IN  IF c.duration > 0 /\ c.is_looping
                /\ c.duration - position <= LoopPointMs
             THEN perform_loop(c)
             ELSE c

\* a poll that never finds the end near
force_loop_check_idle(it) == it

force_loop_check(it) ==
    IF ~it.is_looping \/ it.duration <= 0
    THEN it
    ELSE IF it.duration - it.position <= ForceLoopThresholdMs
         THEN perform_loop(it)
         ELSE it

backup_loop(it) == IF it.is_looping THEN perform_loop(it) ELSE it

play(it) == [it EXCEPT !.is_looping = TRUE, !.state = "PlayingState"]

\* a status handler that loops at the end of the media whatever is_looping is
on_media_status_changed_any(it, status) ==
    IF status = "EndOfMedia"
    THEN perform_loop(it)
    ELSE IF status = "LoadedMedia"
         THEN IF it.state # "PlayingState" THEN play(it) ELSE it
         ELSE it

on_media_status_changed(it, status) ==
    IF status = "EndOfMedia" /\ it.is_looping
    THEN perform_loop(it)
    ELSE IF status = "LoadedMedia"
         THEN IF it.state # "PlayingState" THEN play(it) ELSE it
         ELSE it

load_video(it) == SetMedia(it, it.file_path)

\* VideoItem.__init__, with setup_optimized_looping and load_video
VideoItem(video_id, file_path, target_width, target_height) ==
    load_video(
      [id |-> video_id, file_path |-> file_path,
       target_width |-> target_width, target_height |-> target_height,
       x |-> DefaultX, y |-> DefaultY,
       scale_x |-> DefaultScale, scale_y |-> DefaultScale,
       rotation |-> DefaultRotation,
       transform_dirty |-> TRUE, cached_transform |-> IdentityTransform,
       applied_transform |-> IdentityTransform,
       duration |-> 0, is_looping |-> TRUE, last_position_check |-> 0,
       loop_timer |-> FALSE, loop_timer_interval |-> 0, loop_timer_left |-> 0,
       position_check_timer |-> TRUE,
       media |-> "", status |-> "NoMedia", state |-> "StoppedState",
       position |-> 0, load_pending |-> FALSE, duration_pending |-> FALSE,
       in_scene |-> FALSE,
       reported |-> 0 - 1, pass_loops |-> 0, loops |-> 0, loop_by |-> "none",
       stalled |-> FALSE, fault |-> "none", raised |-> 0])

\* a swap that builds the track anew
VideoItem_swap_video_reset(it, new_file_path) ==
    play(VideoItem(it.id, new_file_path, it.target_width, it.target_height))

VideoItem_swap_video(it, new_file_path) ==
    LET stopped == [it EXCEPT !.state = "StoppedState", !.position = 0]
        loaded == SetMedia([stopped EXCEPT !.file_path = new_file_path],
                           new_file_path)
    IN  play(StopLoopTimer([loaded EXCEPT !.duration = 0]))

\* a stop that stops the player and leaves the two timers alone
stop_player_only(it) ==
    [it EXCEPT !.is_looping = FALSE, !.state = "StoppedState", !.position = 0]

stop(it) ==
    StopLoopTimer([it EXCEPT !.is_looping = FALSE, !.state = "StoppedState",
                             !.position = 0, !.position_check_timer = FALSE])

cleanup(it) ==
    LET s == stop(it)
    IN  [s EXCEPT !.media = "", !.status = "NoMedia", !.in_scene = FALSE]

(***************************************************************************)
(* VideoWindow.  The window is a record; each method maps the window to    *)
(* the window after the call.                                              *)
(***************************************************************************)
apply_transformations(w, video_id) ==
    IF video_id \notin DOMAIN w.videos
    THEN w
    ELSE LET zero == w.screen_width = 0 \/ w.screen_height = 0
             sw == IF zero
                   THEN (IF w.width > 0 THEN w.width ELSE FallbackWidth)
                   ELSE w.screen_width
             sh == IF zero
                   THEN (IF w.height > 0 THEN w.height ELSE FallbackHeight)
                   ELSE w.screen_height
             it == get_cached_transform(w.videos[video_id], sw, sh,
                                        w.standard_video_width,
                                        w.standard_video_height)
         IN  [w EXCEPT !.screen_width = sw, !.screen_height = sh,
                       !.videos[video_id] =
                           [it EXCEPT !.applied_transform = it.cached_transform]]

batch_update_transforms(w, video_ids) ==
    IF video_ids = {}
    THEN w
    ELSE LET live == video_ids \cap DOMAIN w.videos
         IN  [w EXCEPT !.batch_updates = TRUE,
                       !.videos = [i \in DOMAIN w.videos |->
                                      IF i \in live
                                      THEN mark_transform_dirty(w.videos[i])
                                      ELSE w.videos[i]],
                       !.pending_updates = w.pending_updates \cup live,
                       !.batch_timer = TRUE]

RECURSIVE ApplyAll(_, _)
\* the loop of process_batch_updates over _pending_updates
ApplyAll(w, video_ids) ==
    IF video_ids = {}
    THEN w
    ELSE LET i == CHOOSE j \in video_ids : \A k \in video_ids : j <= k
         IN  ApplyAll(apply_transformations(w, i), video_ids \ {i})

\* a batch run that leaves _batch_updates set
process_batch_updates_flag_kept(w) ==
    IF w.pending_updates = {}
    THEN w
    ELSE [ApplyAll(w, w.pending_updates) EXCEPT !.pending_updates = {}]

process_batch_updates(w) ==
    IF w.pending_updates = {}
    THEN w
    ELSE [ApplyAll(w, w.pending_updates) EXCEPT !.pending_updates = {},
                                                !.batch_updates = FALSE]

\* a recompute of all tracks that schedules nothing
batch_update_none(w) == w

batch_update_all_transforms(w) == batch_update_transforms(w, DOMAIN w.videos)

\* a resize that does not join a batch that is already pending
update_screen_dimensions_unjoined(w) ==
    LET new_width == IF w.width > 0 THEN w.width ELSE FallbackWidth
        new_height == IF w.height > 0 THEN w.height ELSE FallbackHeight
        sized == [w EXCEPT !.screen_width = new_width,
                           !.screen_height = new_height]
        marked == [sized EXCEPT !.videos = [i \in DOMAIN w.videos |->
                                   mark_transform_dirty(w.videos[i])]]
    IN  IF w.screen_width # new_width \/ w.screen_height # new_height
        THEN (IF w.batch_updates THEN marked
              ELSE batch_update_all_transforms(marked))
        ELSE sized

\* the window after its widget took size (width, height)
update_screen_dimensions(w) ==
    LET new_width == IF w.width > 0 THEN w.width ELSE FallbackWidth
        new_height == IF w.height > 0 THEN w.height ELSE FallbackHeight
        sized == [w EXCEPT !.screen_width = new_width,
                           !.screen_height = new_height]
    IN  IF w.screen_width # new_width \/ w.screen_height # new_height
        THEN batch_update_all_transforms(
                 [sized EXCEPT !.videos = [i \in DOMAIN w.videos |->
                                   mark_transform_dirty(w.videos[i])]])
        ELSE sized

add_video(w, video_id, file_path, filename) ==
    LET video_item == [VideoItem(video_id, file_path, w.standard_video_width,
                                 w.standard_video_height)
                          EXCEPT !.in_scene = TRUE]
        stored == [w EXCEPT !.videos = Put(w.videos, video_id, video_item)]
        shown == apply_transformations(stored, video_id)
    IN  [shown EXCEPT !.videos[video_id] = play(shown.videos[video_id])]

remove_video(w, video_id) ==
    IF video_id \in DOMAIN w.videos
    THEN [w EXCEPT !.videos = Drop(w.videos, video_id)]
    ELSE w

\* VideoWindow.get_screen_dimensions
get_screen_dimensions(w) == <<w.screen_width, w.screen_height>>

\* what remove_video returns
remove_video_result(w, video_id) == video_id \in DOMAIN w.videos

\* the VideoItem objects no longer in the registry, after remove_video
remove_video_released(w, rel, video_id) ==
    IF video_id \in DOMAIN w.videos
    THEN Put(rel, video_id, cleanup(w.videos[video_id]))
    ELSE rel

swap_video(w, video_id, new_file_path) ==
    IF video_id \in DOMAIN w.videos
    THEN [w EXCEPT !.videos[video_id] =
                       VideoItem_swap_video(w.videos[video_id], new_file_path)]
    ELSE w

\* a setter's tail that starts a batch but joins none
ScheduleUpdate_unjoined(w, video_id) ==
    IF w.batch_updates THEN w ELSE batch_update_transforms(w, {video_id})

\* the tail shared by the three setters: join the batch or start one
ScheduleUpdate(w, video_id) ==
    IF w.batch_updates
    THEN [w EXCEPT !.pending_updates = w.pending_updates \cup {video_id}]
    ELSE batch_update_transforms(w, {video_id})

set_video_position(w, video_id, x, y) ==
    IF video_id \in DOMAIN w.videos
    THEN ScheduleUpdate(
             [w EXCEPT !.videos[video_id] =
                  mark_transform_dirty([w.videos[video_id] EXCEPT !.x = x, !.y = y])],
             video_id)
    ELSE w

set_video_scale_all(w, video_id, scale_x, scale_y) ==
    IF video_id \in DOMAIN w.videos
    THEN ScheduleUpdate(
             [w EXCEPT !.videos = [i \in DOMAIN w.videos |->
                  mark_transform_dirty([w.videos[i] EXCEPT
                                           !.scale_x = scale_x,
                                           !.scale_y = scale_y])]],
             video_id)
    ELSE w

set_video_scale(w, video_id, scale_x, scale_y) ==
    IF video_id \in DOMAIN w.videos
    THEN ScheduleUpdate(
             [w EXCEPT !.videos[video_id] =
                  mark_transform_dirty([w.videos[video_id] EXCEPT
                                           !.scale_x = scale_x,
                                           !.scale_y = scale_y])],
             video_id)
    ELSE w

set_video_rotation(w, video_id, angle) ==
    IF video_id \in DOMAIN w.videos
    THEN ScheduleUpdate(
             [w EXCEPT !.videos[video_id] =
                  mark_transform_dirty([w.videos[video_id] EXCEPT
                                           !.rotation = angle])],
             video_id)
    ELSE w

get_videos_info(w) ==
    [i \in DOMAIN w.videos |->
        [id |-> i, file_path |-> w.videos[i].file_path,
         x |-> w.videos[i].x, y |-> w.videos[i].y,
         scale_x |-> w.videos[i].scale_x, scale_y |-> w.videos[i].scale_y,
         rotation |-> w.videos[i].rotation]]

\* VideoWindow.__init__: empty registry, then update_screen_dimensions
VideoWindow(width, height) ==
    update_screen_dimensions(
        [videos |-> << >>, screen_width |-> 0, screen_height |-> 0,
         width |-> width, height |-> height, screen |-> ScreenGeometry,
         standard_video_width |-> StandardVideoWidth,
         standard_video_height |-> StandardVideoHeight,
         batch_updates |-> FALSE, pending_updates |-> {},
         batch_timer |-> FALSE])

(***************************************************************************)
(* The command channel: VideoController's signals.  A signal emitted by a  *)
(* request thread is queued for the Qt thread, which owns the receiver;    *)
(* the Qt thread takes the queued calls oldest first.                      *)
(***************************************************************************)
NoCmd == [type |-> "none", id |-> 0, path |-> "", name |-> "",
          v1 |-> 0, v2 |-> 0, req |-> 0]

Cmd(type, id, path, name, v1, v2, req) ==
    [type |-> type, id |-> id, path |-> path, name |-> name,
     v1 |-> v1, v2 |-> v2, req |-> req]

\* the slot connected to each signal, as a function of the window
Slot(w, c) ==
    CASE c.type = "add" -> add_video(w, c.id, c.path, c.name)
      [] c.type = "remove" -> remove_video(w, c.id)
      [] c.type = "swap" -> swap_video(w, c.id, c.path)
      [] c.type = "position" -> set_video_position(w, c.id, c.v1, c.v2)
      [] c.type = "scale" -> set_video_scale(w, c.id, c.v1, c.v2)
      [] c.type = "rotation" -> set_video_rotation(w, c.id, c.v1)

SlotReleased(w, rel, c) ==
    IF c.type = "remove" THEN remove_video_released(w, rel, c.id) ELSE rel

\* a direct call of the slot by the emitting thread
EmitDirect(c) ==
    /\ queue' = queue
    /\ win' = Slot(win, c)
    /\ released' = SlotReleased(win, released, c)
    /\ UNCHANGED <<nresize, nevents, ignored, applied_req, resize_joined>>

\* signal.emit(...) from a request thread: the call is queued, nothing of
\* the window is touched by the emitting thread
Emit(c) ==
    /\ queue' = Append(queue, c)
    /\ UNCHANGED qtVars

\* the values the latest emitted calls carry for a track, after call c
Carried(le, c) ==
    CASE c.type = "add" ->
             [le EXCEPT ![c.id] = [file_path |-> c.path,
                                   x |-> DefaultX, y |-> DefaultY,
                                   scale_x |-> DefaultScale,
                                   scale_y |-> DefaultScale,
                                   rotation |-> DefaultRotation]]
      [] c.type = "swap" -> [le EXCEPT ![c.id].file_path = c.path]
      [] c.type = "position" -> [le EXCEPT ![c.id].x = c.v1, ![c.id].y = c.v2]
      [] c.type = "scale" ->
             [le EXCEPT ![c.id].scale_x = c.v1, ![c.id].scale_y = c.v2]
      [] c.type = "rotation" -> [le EXCEPT ![c.id].rotation = c.v1]
      [] OTHER -> le

TakeNewestCall(q) == <<q[Len(q)], SubSeq(q, 1, Len(q) - 1)>>

\* the queued call the Qt event loop delivers next, and the calls left
TakeCall(q) == <<Head(q), Tail(q)>>

\* an id that is merely not in use at the moment
UnusedId(used, db) == CHOOSE i \in Ids \ DOMAIN db : \A j \in Ids \ DOMAIN db : i <= j

\* uuid.uuid4(): an id that was never returned before
NewId(used, db) == CHOOSE i \in Ids \ used : \A j \in Ids \ used : i <= j

(***************************************************************************)
(* server.py: request handlers.  A handler runs on a request thread in two *)
(* steps: the checks and the emit, then the update of videos_db and the    *)
(* answer.  Steps of different threads interleave.                         *)
(***************************************************************************)
Idle == [pc |-> "idle", cmd |-> NoCmd, old_filepath |-> ""]

Answer(op, id, status) == [op |-> op, id |-> id, status |-> status]

\* a request that is refused by its checks: answered at once, no emit
Refuse(r, op, id, status) ==
    /\ resp' = [resp EXCEPT ![r] = Answer(op, id, status)]
    /\ UNCHANGED <<videos_db, files, queue, thr, issued, got, acked,
                   last_emitted>>
    /\ UNCHANGED qtVars

\* a request that passed its checks: emit, then go on to the second step
Proceed(t, r, c, old_filepath) ==
    /\ Emit(c)
    /\ last_emitted' = Carried(last_emitted, c)
    /\ thr' = [thr EXCEPT ![t] = [pc |-> c.type, cmd |-> c,
                                  old_filepath |-> old_filepath]]
    /\ resp' = [resp EXCEPT ![r] = Answer(c.type, c.id, "pending")]
    /\ UNCHANGED <<videos_db, files, got, acked>>

\* the second step ends: the answer is sent, the thread is free again
Finish(t, status) ==
    /\ resp' = [resp EXCEPT ![thr[t].cmd.req] =
                    Answer(thr[t].cmd.type, thr[t].cmd.id, status)]
    /\ thr' = [thr EXCEPT ![t] = Idle]
    /\ UNCHANGED <<queue, nreq, issued, got, last_emitted>>
    /\ UNCHANGED qtVars

CanStart(t) == thr[t].pc = "idle" /\ nreq < MaxReq

\* an add request that does not look for the file
ReqAddVideoAnyPath(t, f) ==
    /\ CanStart(t)
    /\ nreq' = nreq + 1
    /\ issued # Ids
    /\ LET video_id == NewId(issued, videos_db)
       IN  /\ issued' = issued \cup {video_id}
           /\ Proceed(t, nreq + 1,
                      Cmd("add", video_id, f[1], f[2], 0, 0, nreq + 1), "")

ReqAddVideo(t, f) ==
    /\ CanStart(t)
    /\ nreq' = nreq + 1
    /\ IF f[1] \notin files
       THEN Refuse(nreq + 1, "add", 0, "invalid_source") /\ issued' = issued
       ELSE /\ issued # Ids
            /\ LET video_id == NewId(issued, videos_db)
               IN  /\ issued' = issued \cup {video_id}
                   /\ Proceed(t, nreq + 1,
                              Cmd("add", video_id, f[1], f[2], 0, 0, nreq + 1), "")

AddVideoStore(t) ==
    /\ thr[t].pc = "add"
    /\ LET c == thr[t].cmd
       IN  videos_db' = Put(videos_db, c.id,
                            [id |-> c.id, name |-> c.name, filepath |-> c.path,
                             preview_url |-> c.path,
                             x |-> DefaultX, y |-> DefaultY,
                             scale_x |-> DefaultScale, scale_y |-> DefaultScale,
                             rotation |-> DefaultRotation])
    /\ UNCHANGED <<files, acked>>
    /\ Finish(t, "ok")

ReqRemoveVideo(t, video_id) ==
    /\ CanStart(t)
    /\ nreq' = nreq + 1
    /\ IF video_id \notin DOMAIN videos_db
       THEN Refuse(nreq + 1, "remove", video_id, "not_found")
       ELSE /\ Proceed(t, nreq + 1,
                       Cmd("remove", video_id, "", "", 0, 0, nreq + 1), "")
            /\ issued' = issued

RemoveVideoStore(t) ==
    /\ thr[t].pc = "remove"
    /\ UNCHANGED <<files, acked>>
    /\ IF thr[t].cmd.id \in DOMAIN videos_db
       THEN videos_db' = Drop(videos_db, thr[t].cmd.id) /\ Finish(t, "ok")
       ELSE videos_db' = videos_db /\ Finish(t, "error")

ReqSwapVideo(t, video_id, f) ==
    /\ CanStart(t)
    /\ nreq' = nreq + 1
    /\ IF video_id \notin DOMAIN videos_db
       THEN Refuse(nreq + 1, "swap", video_id, "not_found")
       ELSE IF f[1] \notin files
            THEN Refuse(nreq + 1, "swap", video_id, "invalid_source")
            ELSE /\ Proceed(t, nreq + 1,
                            Cmd("swap", video_id, f[1], f[2], 0, 0, nreq + 1),
                            videos_db[video_id].filepath)
                 /\ issued' = issued

SwapVideoStore(t) ==
    /\ thr[t].pc = "swap"
    /\ UNCHANGED acked
    /\ LET c == thr[t].cmd
           old_filepath == thr[t].old_filepath
       IN  IF c.id \in DOMAIN videos_db
           THEN /\ videos_db' = [videos_db EXCEPT ![c.id].filepath = c.path,
                                                  ![c.id].name = c.name,
                                                  ![c.id].preview_url = c.path]
                /\ files' = IF old_filepath \in files /\ old_filepath # c.path
                            THEN files \ {old_filepath}
                            ELSE files
                /\ Finish(t, "ok")
           ELSE /\ UNCHANGED <<videos_db, files>>
                /\ Finish(t, "error")

ReqControlVideoUnchecked(t, video_id, type, v) ==
    /\ CanStart(t)
    /\ nreq' = nreq + 1
    /\ Proceed(t, nreq + 1,
               Cmd(type, video_id, "", "", v[1], v[2], nreq + 1), "")
    /\ issued' = issued

ReqControlVideo(t, video_id, type, v) ==
    /\ CanStart(t)
    /\ nreq' = nreq + 1
    /\ IF video_id \notin DOMAIN videos_db
       THEN Refuse(nreq + 1, type, video_id, "not_found")
       ELSE /\ Proceed(t, nreq + 1,
                       Cmd(type, video_id, "", "", v[1], v[2], nreq + 1), "")
            /\ issued' = issued

\* the record of videos_db after a control command's update
ControlUpdate(rec, c) ==
    CASE c.type = "position" -> [rec EXCEPT !.x = c.v1, !.y = c.v2]
      [] c.type = "scale" -> [rec EXCEPT !.scale_x = c.v1, !.scale_y = c.v2]
      [] c.type = "rotation" -> [rec EXCEPT !.rotation = c.v1]

ControlVideoStore(t) ==
    /\ thr[t].pc \in {"position", "scale", "rotation"}
    /\ UNCHANGED files
    /\ LET c == thr[t].cmd
       IN  IF c.id \in DOMAIN videos_db
           THEN /\ videos_db' = [videos_db EXCEPT ![c.id] = ControlUpdate(@, c)]
                /\ acked' = IF c.type = "rotation"
                            THEN [acked EXCEPT ![c.id] = c.v1]
                            ELSE acked
                /\ Finish(t, "ok")
           ELSE /\ UNCHANGED <<videos_db, acked>>
                /\ Finish(t, "error")

\* videos_db after get_videos copied the window's values into it
Reconcile(db, info) ==
    [i \in DOMAIN db |->
        IF i \in DOMAIN info
        THEN [db[i] EXCEPT !.x = info[i].x, !.y = info[i].y,
                           !.scale_x = info[i].scale_x,
                           !.scale_y = info[i].scale_y,
                           !.rotation = info[i].rotation]
        ELSE db[i]]

ReqGetVideos(t) ==
    /\ CanStart(t)
    /\ nreq' = nreq + 1
    /\ videos_db' = Reconcile(videos_db, get_videos_info(win))
    /\ got' = [got EXCEPT !.valid = TRUE, !.videos = videos_db',
                          !.acked = acked]
    /\ resp' = [resp EXCEPT ![nreq + 1] = Answer("get_videos", 0, "ok")]
    /\ UNCHANGED <<files, queue, thr, issued, acked, last_emitted>>
    /\ UNCHANGED qtVars

\* server.get_screen_dimensions: the geometry of the screen the window is on
server_get_screen_dimensions(w) == w.screen

\* GET /screen-dimensions
ReqScreenDimensions(t) ==
    /\ CanStart(t)
    /\ nreq' = nreq + 1
    /\ got' = [got EXCEPT !.dims = server_get_screen_dimensions(win)]
    /\ resp' = [resp EXCEPT ![nreq + 1] = Answer("screen_dimensions", 0, "ok")]
    /\ UNCHANGED <<videos_db, files, queue, thr, issued, acked, last_emitted>>
    /\ UNCHANGED qtVars

(***************************************************************************)
(* The Qt thread: queued slot calls, the batch timer, resize events.       *)
(***************************************************************************)
QtDeliver(type) ==
    /\ queue # << >>
    /\ LET call == TakeCall(queue)
           c == call[1]
       IN  /\ c.type = type
           /\ queue' = call[2]
           /\ win' = Slot(win, c)
           /\ released' = SlotReleased(win, released, c)
           /\ ignored' = IF c.type # "add" /\ c.id \notin DOMAIN win.videos
                         THEN ignored \cup {c.req}
                         ELSE ignored
           /\ applied_req' = [applied_req EXCEPT ![c.id] = c.req]
    /\ UNCHANGED <<nresize, nevents, resize_joined>>
    /\ UNCHANGED serverVars

QtAddVideo == QtDeliver("add")

\* the queued add_video call is delivered and the construction of the
\* VideoItem raises: the except branch prints the error and returns False,
\* nothing was put into the scene or the registry
QtAddVideoFails ==
    /\ queue # << >>
    /\ LET call == TakeCall(queue)
           c == call[1]
       IN  /\ c.type = "add"
           /\ queue' = call[2]
           /\ applied_req' = [applied_req EXCEPT ![c.id] = c.req]
    /\ UNCHANGED <<win, released, ignored, nresize, nevents, resize_joined>>
    /\ UNCHANGED serverVars
QtRemoveVideo == QtDeliver("remove")
QtSwapVideo == QtDeliver("swap")
QtSetVideoPosition == QtDeliver("position")
QtSetVideoScale == QtDeliver("scale")
QtSetVideoRotation == QtDeliver("rotation")

\* batch_timer (single shot) times out
BatchTimeout ==
    /\ win.batch_timer
    /\ win' = process_batch_updates([win EXCEPT !.batch_timer = FALSE])
    /\ resize_joined' = IF resize_joined = "pending" THEN "processed" ELSE "none"
    /\ UNCHANGED <<queue, released, nresize, nevents, ignored, applied_req>>
    /\ UNCHANGED serverVars

\* resizeEvent: the widget takes a new size
ResizeEvent(size) ==
    /\ nresize < MaxResize
    /\ size # <<win.width, win.height>>
    /\ nresize' = nresize + 1
    /\ win' = update_screen_dimensions(
                  [win EXCEPT !.width = size[1], !.height = size[2]])
    /\ resize_joined' = IF win.batch_timer /\ win.pending_updates # {}
                         THEN "pending" ELSE "none"
    /\ UNCHANGED <<queue, released, nevents, ignored, applied_req>>
    /\ UNCHANGED serverVars

(***************************************************************************)
(* The player and the timers of one VideoItem.  The item is either in the  *)
(* registry or was removed from it; its player and timers call back into   *)
(* the same object in both cases.                                          *)
(***************************************************************************)
Constructed == DOMAIN win.videos \cup DOMAIN released

Item(id) == IF id \in DOMAIN win.videos THEN win.videos[id] ELSE released[id]

\* a callback ran on item id and left it as `it`
Ran(id, it) ==
    /\ IF id \in DOMAIN win.videos
       THEN win' = [win EXCEPT !.videos[id] = it] /\ released' = released
       ELSE released' = [released EXCEPT ![id] = it] /\ win' = win
    /\ UNCHANGED <<queue, nresize, ignored, applied_req, resize_joined>>
    /\ UNCHANGED serverVars

\* the same for an event of the player or of the fallback timer, which
\* are counted
Callback(id, it) ==
    /\ nevents < MaxEvents
    /\ nevents' = nevents + 1
    /\ Ran(id, it)

\* what is left of the fallback timer's interval after `ms` went by
Elapse(it, ms) ==
    IF it.loop_timer
    THEN [it EXCEPT !.loop_timer_left = Max(0, it.loop_timer_left - ms)]
    ELSE it

Unreported(it) == [it EXCEPT !.reported = 0 - 1]

\* the detection path that called into the item last
Via(path, it) == [it EXCEPT !.loop_by = path]

Playing(it) == it.state = "PlayingState" /\ it.status = "LoadedMedia"

\* the backend finished loading the item's media: durationChanged, then
\* mediaStatusChanged(LoadedMedia)
MediaLoaded(id) ==
    /\ id \in Constructed
    /\ Item(id).load_pending /\ Item(id).media # ""
    /\ LET it == [Item(id) EXCEPT !.load_pending = FALSE,
                                  !.status = "LoadedMedia"]
           timed == on_duration_changed(it, MediaDuration(it.media))
       IN  Callback(id, Unreported(on_media_status_changed(timed, "LoadedMedia")))

\* the backend finished loading before it knows the duration:
\* mediaStatusChanged(LoadedMedia) alone
MediaLoadedUntimed(id) ==
    /\ id \in Constructed
    /\ Item(id).load_pending /\ Item(id).media # ""
    /\ LET it == [Item(id) EXCEPT !.load_pending = FALSE,
                                  !.duration_pending = TRUE,
                                  !.status = "LoadedMedia"]
       IN  Callback(id, Unreported(on_media_status_changed(it, "LoadedMedia")))

\* the duration becomes available after playback began: durationChanged
DurationChanged(id) ==
    /\ id \in Constructed
    /\ Item(id).duration_pending /\ Item(id).media # ""
    /\ LET it == [Item(id) EXCEPT !.duration_pending = FALSE]
       IN  Callback(id, Unreported(on_duration_changed(it, MediaDuration(it.media))))

\* the LoadedMedia notification of a load that was still on its way when the
\* media was taken away by setMedia(QMediaContent())
LateLoaded(id) ==
    /\ id \in Constructed
    /\ Item(id).load_pending /\ Item(id).media = ""
    /\ LET it == [Item(id) EXCEPT !.load_pending = FALSE]
       IN  Callback(id, Unreported(on_media_status_changed(it, "LoadedMedia")))

\* the backend gives the media of a live track up, while it loads it or
\* while it plays it: the player stops and mediaStatusChanged(InvalidMedia)
\* is delivered
MediaFailed(id) ==
    /\ id \in DOMAIN win.videos
    /\ win.videos[id].media # ""
    /\ win.videos[id].load_pending \/ Playing(win.videos[id])
    /\ LET it == [win.videos[id] EXCEPT !.load_pending = FALSE,
                                        !.duration_pending = FALSE,
                                        !.status = "InvalidMedia",
                                        !.state = "StoppedState"]
       IN  Callback(id, Via("failed",
                Unreported(on_media_status_changed(it, "InvalidMedia"))))

\* playback reaches position p: positionChanged(p)
PositionChanged(id, p) ==
    /\ id \in Constructed
    /\ Playing(Item(id))
    /\ p \in PositionSteps(MediaDuration(Item(id).media))
    /\ p > Item(id).position
    /\ LET before == Item(id)
           it == [Elapse(before, p - before.position) EXCEPT
                      !.position = p, !.reported = p,
                      !.pass_loops = IF before.position = 0
                                     THEN 0 ELSE before.pass_loops]
       IN  Callback(id, Via("position", check_near_end(it, p)))

\* playback reaches the end: mediaStatusChanged(EndOfMedia)
EndOfMedia(id) ==
    /\ id \in Constructed
    /\ Playing(Item(id))
    /\ LET before == Item(id)
           d == MediaDuration(before.media)
           it == [Elapse(before, d - before.position) EXCEPT
                      !.position = d, !.status = "EndOfMedia",
                      !.state = "StoppedState"]
       IN  Callback(id, Via("end", Unreported(on_media_status_changed(it, "EndOfMedia"))))

\* position_check_timer times out: it does so every 200 ms for as long as it
\* runs
PollTimeout(id) ==
    /\ id \in Constructed
    /\ Item(id).position_check_timer
    /\ nevents' = nevents
    /\ Ran(id, Via("poll", Unreported(force_loop_check(Item(id)))))

\* loop_timer times out, not before its interval went by, and starts over
BackupTimeout(id) ==
    /\ id \in Constructed
    /\ Item(id).loop_timer /\ Item(id).loop_timer_left = 0
    /\ LET it == [Item(id) EXCEPT !.loop_timer_left = Item(id).loop_timer_interval]
       IN  Callback(id, Via("backup", Unreported(backup_loop(it))))

\* the player of a live track gets into a condition in which its next
\* setPosition (kind "seek") or its next play (kind "play") raises
Faults == {"seek", "play"}
Glitch(id, kind) ==
    /\ id \in DOMAIN win.videos
    /\ win.videos[id].is_looping
    /\ win.videos[id].fault = "none"
    /\ win.videos[id].raised = 0
    /\ Callback(id, [win.videos[id] EXCEPT !.fault = kind])

\* a notification of the player or a tick of a timer that was on its way when
\* the item was stopped by cleanup, delivered afterwards; the position
\* notified is the last one of the file
StaleKinds == {"position", "poll", "backup", "end"}
StaleEvent(id, kind) ==
    /\ id \in DOMAIN released
    /\ LET it == released[id]
           after ==
             CASE kind = "position" ->
                      check_near_end(it, MediaDuration(it.file_path) - 1)
               [] kind = "poll" -> force_loop_check(it)
               [] kind = "backup" -> backup_loop(it)
               [] kind = "end" -> on_media_status_changed(it, "EndOfMedia")
       IN  Callback(id, Via("late_" \o kind, Unreported(after)))

\* time goes by while the item's playback position stands still
StallSteps == {BackupMinMs}
Stall(id, ms) ==
    /\ id \in Constructed
    /\ Item(id).loop_timer /\ Item(id).loop_timer_left > 0
    /\ nevents' = nevents
    /\ Ran(id, Unreported([Elapse(Item(id), ms) EXCEPT !.stalled = TRUE]))

\* the window's methods called on the Qt thread itself
WindowCall(w, rel) ==
    /\ nevents < MaxEvents
    /\ nevents' = nevents + 1
    /\ win' = w
    /\ released' = rel
    /\ UNCHANGED <<queue, nresize, ignored, applied_req, resize_joined>>
    /\ UNCHANGED <<videos_db, files, thr, nreq, resp, got, acked, last_emitted>>

WindowAddVideo(f) ==
    /\ issued # Ids
    /\ f[1] \in files
    /\ issued' = issued \cup {NewId(issued, videos_db)}
    /\ WindowCall(add_video(win, NewId(issued, videos_db), f[1], f[2]), released)

WindowSwapVideo(id, f) ==
    /\ id \in DOMAIN win.videos
    /\ f[1] \in files
    /\ f[1] # win.videos[id].file_path
    /\ issued' = issued
    /\ WindowCall(swap_video(win, id, f[1]), released)

WindowRemoveVideo(id) ==
    /\ id \in issued
    /\ issued' = issued
    /\ WindowCall(remove_video(win, id), remove_video_released(win, released, id))

WindowSetVideoPosition(id, v) ==
    /\ id \in DOMAIN win.videos
    /\ issued' = issued
    /\ WindowCall(set_video_position(win, id, v[1], v[2]), released)

WindowSetVideoScale(id, v) ==
    /\ id \in DOMAIN win.videos
    /\ issued' = issued
    /\ WindowCall(set_video_scale(win, id, v[1], v[2]), released)

WindowSetVideoRotation(id, angle) ==
    /\ id \in DOMAIN win.videos
    /\ issued' = issued
    /\ WindowCall(set_video_rotation(win, id, angle), released)

(***************************************************************************)
(* Specifications.                                                         *)
(***************************************************************************)
Init ==
    /\ videos_db = << >>
    /\ files = InitialFiles
    /\ queue = << >>
    /\ thr = [t \in Threads |-> Idle]
    /\ nreq = 0
    /\ resp = [r \in Reqs |-> Answer("none", 0, "none")]
    /\ issued = {}
    /\ win = VideoWindow(InitialSize[1], InitialSize[2])
    /\ released = << >>
    /\ nresize = 0
    /\ nevents = 0
    /\ got = [valid |-> FALSE, videos |-> << >>,
              acked |-> [i \in Ids |-> 0 - 1], dims |-> <<0, 0>>]
    /\ acked = [i \in Ids |-> 0 - 1]
    /\ ignored = {}
    /\ last_emitted = [i \in Ids |-> [file_path |-> "", x |-> 0, y |-> 0,
                                       scale_x |-> 0, scale_y |-> 0,
                                       rotation |-> 0]]
    /\ applied_req = [i \in Ids |-> 0]
    /\ resize_joined = "none"

\* the command surface and the registry
Next ==
    \/ \E t \in Threads, f \in RequestFiles : ReqAddVideo(t, f)
    \/ \E t \in Threads : AddVideoStore(t)
    \/ \E t \in Threads, i \in Ids : ReqRemoveVideo(t, i)
    \/ \E t \in Threads : RemoveVideoStore(t)
    \/ \E t \in Threads, i \in Ids, f \in RequestFiles : ReqSwapVideo(t, i, f)
    \/ \E t \in Threads : SwapVideoStore(t)
    \/ \E t \in Threads, i \in Ids, v \in PosInputs : ReqControlVideo(t, i, "position", v)
    \/ \E t \in Threads, i \in Ids, v \in ScaleInputs : ReqControlVideo(t, i, "scale", v)
    \/ \E t \in Threads, i \in Ids, v \in RotInputs : ReqControlVideo(t, i, "rotation", <<v, 0>>)
    \/ \E t \in Threads : ControlVideoStore(t)
    \/ \E t \in Threads : ReqGetVideos(t)
    \/ QtAddVideo
    \/ QtRemoveVideo
    \/ QtSwapVideo
    \/ QtSetVideoPosition
    \/ QtSetVideoScale
    \/ QtSetVideoRotation
    \/ BatchTimeout

Spec == Init /\ [][Next]_vars

\* add, remove and rotation requests and their queued calls, with add_video
\* calls that fail on the Qt thread
NextSync ==
    \/ \E t \in Threads, f \in RequestFiles : ReqAddVideo(t, f)
    \/ \E t \in Threads : AddVideoStore(t)
    \/ \E t \in Threads, i \in Ids : ReqRemoveVideo(t, i)
    \/ \E t \in Threads : RemoveVideoStore(t)
    \/ \E t \in Threads, i \in Ids, v \in RotInputs :
          ReqControlVideo(t, i, "rotation", <<v, 0>>)
    \/ \E t \in Threads : ControlVideoStore(t)
    \/ QtAddVideo
    \/ QtAddVideoFails
    \/ QtRemoveVideo
    \/ QtSetVideoRotation

SpecSync == Init /\ [][NextSync]_vars

\* the window on its own thread: its methods called there, the tracks'
\* players and timers
NextLoop ==
    \/ \E f \in RequestFiles : WindowAddVideo(f)
    \/ \E i \in Ids, f \in RequestFiles : WindowSwapVideo(i, f)
    \/ \E i \in Ids : WindowRemoveVideo(i)
    \/ \E i \in Ids : MediaLoaded(i)
    \/ \E i \in Ids : MediaLoadedUntimed(i)
    \/ \E i \in Ids : DurationChanged(i)
    \/ \E i \in Ids : LateLoaded(i)
    \/ \E i \in Ids : MediaFailed(i)
    \/ \E i \in Ids, p \in AllPositions : PositionChanged(i, p)
    \/ \E i \in Ids : EndOfMedia(i)
    \/ \E i \in Ids : PollTimeout(i)
    \/ \E i \in Ids : BackupTimeout(i)
    \/ \E i \in Ids, ms \in StallSteps : Stall(i, ms)
    \/ \E i \in Ids, kind \in StaleKinds : StaleEvent(i, kind)
    \/ \E i \in Ids, kind \in Faults : Glitch(i, kind)

SpecLoop == Init /\ [][NextLoop]_vars

\* the same with the poll timer of every track firing again and again, as a
\* repeating QTimer does while the event loop runs
SpecLoopFair ==
    Init /\ [][NextLoop]_vars /\ \A i \in Ids : WF_vars(PollTimeout(i))

\* the window on its own thread: tracks added, placed and removed, the batch
\* timer, resize events
NextView ==
    \/ \E f \in RequestFiles : nevents < MaxCalls /\ WindowAddVideo(f)
    \/ \E i \in Ids : nevents < MaxCalls /\ WindowRemoveVideo(i)
    \/ \E i \in Ids, v \in PosInputs :
          nevents < MaxCalls /\ WindowSetVideoPosition(i, v)
    \/ \E i \in Ids, v \in ScaleInputs :
          nevents < MaxCalls /\ WindowSetVideoScale(i, v)
    \/ \E i \in Ids, v \in RotInputs :
          nevents < MaxCalls /\ WindowSetVideoRotation(i, v)
    \/ BatchTimeout
    \/ \E size \in ScreenSizes : ResizeEvent(size)
    \/ \E t \in Threads : ReqScreenDimensions(t)

SpecView == Init /\ [][NextView]_vars

(***************************************************************************)
(* Properties.                                                             *)
(***************************************************************************)
Live == DOMAIN win.videos

\* the transform parameters of a track or of a videos_db record
Params(rec) == <<rec.x, rec.y, rec.scale_x, rec.scale_y, rec.rotation>>

\* requests for track i of one of the kinds in ops that emitted a call
Emitted(i, ops) ==
    {r \in Reqs : resp[r].id = i /\ resp[r].op \in ops
                  /\ resp[r].status \in {"pending", "ok", "error"}}

\* C1: the calls emitted for one track are delivered in the order of their
\* emission (a queued call for a track is always newer than every call already
\* delivered for it, and the queue holds a track's calls oldest first), and
\* once the queue is empty every live track holds, in each field, the value
\* carried by the latest call emitted for that field.
C1_AppliedInEmissionOrder ==
    /\ \A k \in 1..Len(queue) :
          /\ queue[k].req > applied_req[queue[k].id]
          /\ \A j \in 1..(k - 1) :
                queue[j].id = queue[k].id => queue[j].req < queue[k].req
    /\ queue = << >> =>
          \A i \in Live :
              /\ Params(win.videos[i]) = Params(last_emitted[i])
              /\ win.videos[i].file_path = last_emitted[i].file_path

\* two position calls were emitted for one track, both are delivered, and the
\* track holds the values of the second, which differ from those of the first
C1_Witness ==
    /\ queue = << >>
    /\ \E i \in Live :
          /\ Cardinality(Emitted(i, {"position"})) >= 2
          /\ win.videos[i].x = 300
          /\ win.videos[i].file_path = "a.mp4"

\* the call the Qt thread delivers in this step, if the step is a delivery
Delivering(types) ==
    /\ queue # << >>
    /\ queue' = Tail(queue)
    /\ Head(queue).type \in types

\* C2: delivering set_position, set_scale or set_rotation for track A sets
\* the named field of A to the values carried, and changes neither the two
\* other transform fields of A nor any transform field of another track, nor
\* the set of live tracks.
C2_SettersTouchOneField ==
    [][Delivering({"position", "scale", "rotation"}) =>
        LET c == Head(queue)
        IN  /\ DOMAIN win'.videos = Live
            /\ \A i \in Live :
                  LET old == win.videos[i]
                      new == win'.videos[i]
                  IN  IF i # c.id
                      THEN Params(new) = Params(old)
                      ELSE CASE c.type = "position" ->
                                    /\ <<new.x, new.y>> = <<c.v1, c.v2>>
                                    /\ <<new.scale_x, new.scale_y, new.rotation>>
                                         = <<old.scale_x, old.scale_y, old.rotation>>
                             [] c.type = "scale" ->
                                    /\ <<new.scale_x, new.scale_y>> = <<c.v1, c.v2>>
                                    /\ <<new.x, new.y, new.rotation>>
                                         = <<old.x, old.y, old.rotation>>
                             [] c.type = "rotation" ->
                                    /\ new.rotation = c.v1
                                    /\ <<new.x, new.y, new.scale_x, new.scale_y>>
                                         = <<old.x, old.y, old.scale_x, old.scale_y>>
    ]_vars

\* two live tracks, a scale call delivered for one of them: it holds the
\* scale carried, the other one its default scale
C2_Witness ==
    \E i \in Live, j \in Live :
        /\ i # j
        /\ applied_req[i] \in Emitted(i, {"scale"})
        /\ win.videos[i].scale_x = 2
        /\ win.videos[j].scale_x = DefaultScale

C4_NoSuccessThenIgnored ==
    \A r \in ignored : resp[r].status # "ok"

\* C5: delivering swap(id, new_path) to a live track leaves its position,
\* scale and rotation as they were and sets its source path; the second step
\* of the swap request leaves position, scale and rotation of the videos_db
\* record as they were and sets its path, name and preview url.
C5_SwapKeepsTransform ==
    [][/\ Delivering({"swap"}) /\ Head(queue).id \in Live =>
            LET c == Head(queue)
            IN  /\ c.id \in DOMAIN win'.videos
                /\ Params(win'.videos[c.id]) = Params(win.videos[c.id])
                /\ win'.videos[c.id].file_path = c.path
       /\ \A t \in Threads :
            (thr[t].pc = "swap" /\ thr'[t].pc = "idle"
             /\ thr[t].cmd.id \in DOMAIN videos_db) =>
                LET c == thr[t].cmd
                IN  /\ DOMAIN videos_db' = DOMAIN videos_db
                    /\ Params(videos_db'[c.id]) = Params(videos_db[c.id])
                    /\ videos_db'[c.id].filepath = c.path
                    /\ videos_db'[c.id].name = c.name
                    /\ videos_db'[c.id].preview_url = c.path
                    /\ \A i \in DOMAIN videos_db :
                          i # c.id => videos_db'[i] = videos_db[i]
    ]_vars

\* a track that was moved and then swapped: the swap was the latest call
\* delivered for it, it plays the new file at the moved position, and the
\* videos_db record agrees
C5_Witness ==
    \E i \in Live :
        /\ applied_req[i] \in Emitted(i, {"swap"})
        /\ resp[applied_req[i]].status = "ok"
        /\ win.videos[i].file_path = "b.mp4"
        /\ win.videos[i].x # DefaultX
        /\ i \in DOMAIN videos_db
        /\ videos_db[i].filepath = "b.mp4"
        /\ videos_db[i].x = win.videos[i].x

\* requests that returned (or are about to return) a new id
Adds == {r \in Reqs : resp[r].op = "add" /\ resp[r].status \in {"pending", "ok"}}

\* C6: the registry is keyed by the tracks' own ids, no two add requests ever
\* return the same id, and once the queue is empty a track for which a remove
\* call was emitted is not in the registry.
C6_IdsUniqueNeverReused ==
    /\ \A i \in Live : win.videos[i].id = i
    /\ \A r1 \in Adds, r2 \in Adds : r1 # r2 => resp[r1].id # resp[r2].id
    /\ queue = << >> =>
          \A i \in Ids : Emitted(i, {"remove"}) # {} => i \notin Live

\* a track was added and removed, both calls are delivered and the registry
\* is empty; a later add returned another id
C6_Witness ==
    /\ queue = << >>
    /\ \E r1 \in Adds, r2 \in Reqs, r3 \in Adds :
          /\ r1 < r2 /\ r2 < r3
          /\ resp[r2] = Answer("remove", resp[r1].id, "ok")
          /\ resp[r3].id # resp[r1].id
          /\ Live = {resp[r3].id}

\* C7: every get_videos answer lists, for each track, the rotation of the
\* latest set_rotation request that was answered with success (0 if there was
\* none), and the default position and scale if no position or scale request
\* was made for the track - whether or not the Qt thread has delivered the
\* queued calls yet.
C7_GetVideosReflectsCommands ==
    got.valid =>
        \A i \in DOMAIN got.videos :
            /\ got.acked[i] # 0 - 1 => got.videos[i].rotation = got.acked[i]
            /\ Emitted(i, {"rotation"}) = {} =>
                  got.videos[i].rotation = DefaultRotation
            /\ Emitted(i, {"position"}) = {} =>
                  <<got.videos[i].x, got.videos[i].y>> = <<DefaultX, DefaultY>>
            /\ Emitted(i, {"scale"}) = {} =>
                  <<got.videos[i].scale_x, got.videos[i].scale_y>>
                      = <<DefaultScale, DefaultScale>>

\* C8: when the player reports position D - 1 to a looping track of known
\* duration D > 0, exactly one perform_loop has run since the position left 0.
C8_OneLoopPerPass ==
    \A i \in Live :
        LET it == win.videos[i]
        IN  (it.is_looping /\ it.duration > 0 /\ it.reported = it.duration - 1)
                => it.pass_loops = 1

\* C9: a track that was removed is never looping and never playing again.
C9_RemoveIsTerminal ==
    \A i \in DOMAIN released :
        ~released[i].is_looping /\ released[i].state # "PlayingState"

\* C10: a step of a request thread (one that starts a request or ends its
\* second step) changes neither the registry, nor a track, nor the viewport,
\* nor a removed track: all of these change only in steps of the Qt thread.
C10_OnlyQtThreadMutates ==
    [][(win' # win \/ released' # released) => (nreq' = nreq /\ thr' = thr)]_vars

\* an add, a rotation and a swap request were answered with success and the
\* Qt thread has delivered their calls: the track holds what they carried
C10_Witness ==
    /\ queue = << >>
    /\ \E i \in Live :
          /\ \E r \in Reqs : resp[r] = Answer("rotation", i, "ok")
          /\ \E r \in Reqs : resp[r] = Answer("swap", i, "ok")
          /\ win.videos[i].rotation = 45
          /\ win.videos[i].file_path = "b.mp4"

\* the step is a get-videos request
GetVideosStep ==
    /\ nreq' = nreq + 1
    /\ resp'[nreq'].op = "get_videos"

\* C11: a request thread depends on the window only through the command
\* channel: what a get-videos request lists is what the request handlers
\* stored in videos_db, whatever the registry holds at that moment.
C11_RequestsNeverReadWindow ==
    [][GetVideosStep => got'.videos = videos_db]_vars

\* C12: a get-videos request lists exactly the tracks that are live in the
\* registry when it runs, each with the track's source path, position, scale
\* and rotation.
C12_ListIsRegistry ==
    [][GetVideosStep =>
        /\ DOMAIN got'.videos = Live
        /\ \A i \in Live :
              /\ got'.videos[i].filepath = win.videos[i].file_path
              /\ Params(got'.videos[i]) = Params(win.videos[i])
    ]_vars

\* the transform of track i of window w, from its parameters and a viewport
TransformOf(w, i, width, height) ==
    ComputeTransform(w.videos[i], width, height,
                     w.standard_video_width, w.standard_video_height)

\* C13: when the batch timer fires on a batch that a resize arrived in, every
\* live track gets the transform of its latest parameters and of the widget's
\* new size applied.
C13_ResizeJoinsBatch ==
    [][(resize_joined = "pending" /\ resize_joined' = "processed") =>
          \A i \in DOMAIN win'.videos :
              win'.videos[i].applied_transform
                  = TransformOf(win', i, win'.width, win'.height)
    ]_vars

\* two tracks, one of them moved; the resize arrived while the move was
\* pending, and the batch was processed: both tracks show in the new size
C13_Witness ==
    /\ resize_joined = "processed"
    /\ ~win.batch_timer
    /\ win.screen_width = 800
    /\ \E i \in Live, j \in Live :
          /\ win.videos[i].x = 300 /\ win.videos[j].x = DefaultX
          /\ win.videos[i].applied_transform[1] = <<"translate", 600, 100>>
          /\ win.videos[j].applied_transform[1] = <<"translate", 400, 300>>

\* the transform the contract describes: the pivot of rotation and scaling is
\* the centre of the scaled footprint
ScaledCentreTransform(it, W, H, w, h) ==
    LET cx == (w * it.scale_x) \div 2
        cy == (h * it.scale_y) \div 2
    IN  << <<"translate", (it.x * W) \div XNorm, (it.y * H) \div YNorm>>,
           <<"translate", cx, cy>>,
           <<"rotate", it.rotation, 0>>,
           <<"scale", it.scale_x, it.scale_y>>,
           <<"translate", 0 - cx, 0 - cy>> >>

\* C14: the transform computed for a track (held in its cache when the dirty
\* flag is clear) is translate to (x/400*W, y/300*H), translate to the scaled
\* footprint centre (w*sx/2, h*sy/2), rotate, scale, translate back by the
\* same centre.
C14_PivotIsScaledCentre ==
    \A i \in Live :
        ~win.videos[i].transform_dirty =>
            win.videos[i].cached_transform
                = ScaledCentreTransform(win.videos[i], win.screen_width,
                                        win.screen_height,
                                        win.standard_video_width,
                                        win.standard_video_height)

\* C15: a live track whose dirty flag is clear holds in its cache the
\* transform of its current position, scale and rotation and of the stored
\* viewport; and a step that changes the position, scale or rotation of a
\* track, or the stored viewport, leaves the track with its dirty flag set.
C15_CacheCoherent ==
    /\ [](\A i \in Live :
            ~win.videos[i].transform_dirty =>
                win.videos[i].cached_transform
                    = TransformOf(win, i, win.screen_width, win.screen_height))
    /\ [][\A i \in Live \cap DOMAIN win'.videos :
            (\/ Params(win'.videos[i]) # Params(win.videos[i])
             \/ <<win'.screen_width, win'.screen_height>>
                  # <<win.screen_width, win.screen_height>>)
                => win'.videos[i].transform_dirty
       ]_vars

\* a track that was moved, scaled and rotated under a resized viewport, with
\* a clear flag: its cache holds the transform of all of these
C15_Witness ==
    \E i \in Live :
        /\ ~win.videos[i].transform_dirty
        /\ win.screen_width = 800
        /\ win.videos[i].x # DefaultX
        /\ win.videos[i].scale_x = 2
        /\ win.videos[i].rotation = 45
        /\ win.videos[i].cached_transform[1][2] = (win.videos[i].x * 800) \div XNorm
        /\ win.videos[i].cached_transform[3] = <<"rotate", 45, 0>>

\* C16: once the batch timer is no longer armed, every live track shows the
\* transform of its current parameters and of the stored viewport, which is
\* the widget's size: nothing that was set or resized is left undisplayed.
C16_BatchedEqualsImmediate ==
    ~win.batch_timer =>
        /\ win.pending_updates = {}
        /\ <<win.screen_width, win.screen_height>> = <<win.width, win.height>>
        /\ \A i \in Live :
              win.videos[i].applied_transform
                  = TransformOf(win, i, win.screen_width, win.screen_height)

\* two tracks were set in one batch (the second joined the batch of the
\* first), the timer fired, and both show what was set
C16_Witness ==
    /\ ~win.batch_timer
    /\ nevents = MaxCalls
    /\ \E i \in Live, j \in Live :
          /\ i # j
          /\ win.videos[i].x = 100
          /\ win.videos[j].rotation = 45
          /\ win.videos[i].applied_transform[1] = <<"translate", 480, 360>>
          /\ win.videos[j].applied_transform[3] = <<"rotate", 45, 0>>

\* C17: a resize event stores the widget's new size as the viewport, marks
\* every live track dirty, puts every live track in the pending batch and
\* arms the batch timer.
C17_ResizeRecomputesAll ==
    [][nresize' = nresize + 1 =>
          /\ <<win'.screen_width, win'.screen_height>> = <<win'.width, win'.height>>
          /\ DOMAIN win'.videos = Live
          /\ \A i \in Live : win'.videos[i].transform_dirty
          /\ Live \subseteq win'.pending_updates
          /\ Live # {} => (win'.batch_timer /\ win'.batch_updates)
    ]_vars

\* the window was resized with two tracks live and no batch pending before:
\* both are dirty and pending, the timer is armed, the viewport is the new one
C17_Witness ==
    /\ nresize = 1
    /\ resize_joined = "none"
    /\ Cardinality(Live) = 2
    /\ win.pending_updates = Live
    /\ win.batch_timer
    /\ \A i \in Live : win.videos[i].transform_dirty
    /\ <<win.screen_width, win.screen_height>> = <<800, 600>>

\* the tracks on which a perform_loop ran in this step
Looped ==
    {i \in Constructed : Item(i)'.loops > Item(i).loops}

\* C18: a step in which perform_loop ran on a track leaves the track at
\* position 0, playing, and with the fallback timer armed.
C18_LoopSeeksPlaysAndRearms ==
    [][\A i \in Looped :
          /\ Item(i)'.position = 0
          /\ Item(i)'.state = "PlayingState"
          /\ Item(i)'.loop_timer
          /\ Item(i)'.loop_timer_left > 0
    ]_vars

\* C19: whenever the fallback timer is armed for a track of known duration
\* D > 0, its interval is smaller than D.
C19_FallbackBeforeEnd ==
    \A i \in Constructed :
        (Item(i).loop_timer /\ Item(i).duration > 0)
            => Item(i).loop_timer_interval < Item(i).duration

\* C20: when the fallback timer invokes perform_loop on a track that is
\* playing and whose playback did not stand still since the timer was armed,
\* the position is already within the threshold at which the position poll
\* invokes perform_loop: the fallback does not loop a healthy pass early.
C20_FallbackOnlyAfterPrimary ==
    [][\A i \in Looped :
          (Item(i)'.loop_by = "backup" /\ Playing(Item(i)) /\ ~Item(i).stalled)
              => Item(i).duration - Item(i).position <= ForceLoopThresholdMs
    ]_vars

\* playback of live, looping track i of known duration stands within the
\* near-end threshold of the end
NearEnd(i) ==
    /\ i \in Live
    /\ win.videos[i].is_looping
    /\ win.videos[i].media # ""
    /\ win.videos[i].duration > 0
    /\ win.videos[i].duration - win.videos[i].position <= LoopPointMs

\* C21: whenever the playback of a looping track of known duration D > 0 has
\* advanced to within the near-end threshold of D, the pass ends: perform_loop
\* takes the track back to position 0 (or the track is swapped or removed),
\* on every pass and without any end-of-media event.
C21_EveryPassLoops ==
    \A i \in Ids : NearEnd(i) ~> ~NearEnd(i)

\* a track on a later pass that the poll timer ended: it was near the end
\* twice and is back at position 0
C21_Witness ==
    \E i \in Live :
        /\ win.videos[i].loops >= 2
        /\ win.videos[i].loop_by = "poll"
        /\ win.videos[i].position = 0
        /\ win.videos[i].is_looping

\* the step delivers a LoadedMedia status to removed item i, whose handler
\* calls play()
LoadedStep(i) == released[i].load_pending /\ ~released'[i].load_pending

\* C22: a track that was stopped (is_looping false, both timers stopped) and
\* on which play() is not called in the step is left stopped by the step: no
\* perform_loop runs on it, its player is not started, is_looping stays false
\* and its timers stay stopped - whichever of a position notification, a
\* poll tick, a fallback tick or an end-of-media status is delivered to it.
C22_StoppedStaysStopped ==
    [][\A i \in DOMAIN released :
          (~released[i].is_looping /\ ~LoadedStep(i)) =>
              /\ released'[i].loops = released[i].loops
              /\ released'[i].state = "StoppedState"
              /\ ~released'[i].is_looping
              /\ ~released'[i].loop_timer
              /\ ~released'[i].position_check_timer
    ]_vars

\* a track that had been playing with a known duration was stopped, and an
\* end-of-media status was delivered to it afterwards: it is still stopped
C22_Witness ==
    \E i \in DOMAIN released :
        /\ released[i].loop_by = "late_end"
        /\ released[i].duration > 0
        /\ ~released[i].is_looping
        /\ released[i].state = "StoppedState"

\* live track i is marked as looping and has its media loaded, but its
\* player is stopped and nothing is left that could start it: the fallback
\* timer is stopped, no duration is on its way, and the position is not one
\* at which the poll calls perform_loop
Stuck(i) ==
    LET it == win.videos[i]
    IN  /\ it.is_looping
        /\ it.media # "" /\ ~it.load_pending /\ ~it.duration_pending
        /\ it.state = "StoppedState" /\ it.status # "InvalidMedia"
        /\ ~it.loop_timer
        /\ ~(it.duration > 0 /\ it.duration - it.position <= ForceLoopThresholdMs)

\* C23: an exception raised by the seek or the restart inside perform_loop
\* leaves the track looping, and no looping track with loaded media is ever
\* in a state from which no detection signal can restart it.
C23_LoopFailureSelfHeals ==
    \A i \in Live :
        /\ win.videos[i].raised > 0 => win.videos[i].is_looping
        /\ ~Stuck(i)

\* C24: an add or swap request either emits a call that carries the path of
\* a file that exists, or is answered with an error and emits nothing,
\* allocates no id and leaves videos_db, the files, the registry and the
\* request threads as they were: a path that does not exist is never taken
\* further than the check.
C24_MissingPathRejected ==
    [][(nreq' = nreq + 1 /\ resp'[nreq'].op \in {"add", "swap"}) =>
          IF resp'[nreq'].status = "pending"
          THEN /\ Len(queue') = Len(queue) + 1
               /\ queue'[Len(queue')].path \in files
          ELSE /\ resp'[nreq'].status \in {"invalid_source", "not_found"}
               /\ UNCHANGED <<queue, videos_db, files, issued, thr, win, released>>
    ]_vars

\* an add and a swap request were each refused for a path that does not
\* exist, and the track they came across is as it was
C24_Witness ==
    /\ \E r \in Reqs : resp[r].op = "add" /\ resp[r].status = "invalid_source"
    /\ \E r \in Reqs : resp[r].op = "swap" /\ resp[r].status = "invalid_source"
    /\ Cardinality(issued) = 1
    /\ DOMAIN videos_db = issued

\* the media of live track i failed
Failed(i) == i \in Live /\ win.videos[i].status = "InvalidMedia"

C26_RemoveStopsOnlyThatTrack ==
    [][\A i \in Ids : WindowRemoveVideo(i) =>
          IF i \in Live
          THEN /\ remove_video_result(win, i)
               /\ DOMAIN win'.videos = Live \ {i}
               /\ \A j \in Live \ {i} : win'.videos[j] = win.videos[j]
               /\ i \in DOMAIN released'
               /\ ~released'[i].is_looping
               /\ released'[i].state = "StoppedState"
               /\ ~released'[i].position_check_timer
               /\ ~released'[i].loop_timer
               /\ ~released'[i].in_scene
               /\ \A j \in DOMAIN released : j # i => released'[j] = released[j]
          ELSE /\ ~remove_video_result(win, i)
               /\ win' = win
               /\ released' = released
    ]_vars

\* a track was removed while it played with its fallback timer running;
\* another track is still in the scene, looping, with its poll timer running
C26_Witness ==
    \E i \in DOMAIN released, j \in Live :
        /\ released[i].duration > 0
        /\ ~released[i].is_looping /\ ~released[i].loop_timer
        /\ ~released[i].position_check_timer /\ ~released[i].in_scene
        /\ win.videos[j].is_looping
        /\ win.videos[j].position_check_timer /\ win.videos[j].in_scene

\* C27: a swap applied to a track leaves its loop telemetry at the initial
\* values - duration 0, last position checked 0 - and its fallback timer
\* stopped, as they are in a track that was just added.
C27_SwapResetsTelemetry ==
    [][\A i \in Ids :
          (i \in Live /\ i \in DOMAIN win'.videos
           /\ win'.videos[i].file_path # win.videos[i].file_path) =>
              /\ win'.videos[i].duration = 0
              /\ ~win'.videos[i].loop_timer
              /\ win'.videos[i].last_position_check = 0
    ]_vars

\* the step is a screen-dimensions request
ScreenDimensionsStep ==
    /\ nreq' = nreq + 1
    /\ resp'[nreq'].op = "screen_dimensions"

\* C28: a screen-dimensions request answers the width and height that the
\* window has stored and places the tracks by, after any resize events.
C28_DimensionsAreStoredViewport ==
    [][ScreenDimensionsStep => got'.dims = get_screen_dimensions(win)]_vars

\* C29: the second step of a swap request for track A deletes no file that
\* another live track plays, and no file that a queued add or swap call for
\* another track carries.
C29_SwapSparesOtherTracksFiles ==
    [][\A t \in Threads :
          (thr[t].pc = "swap" /\ thr'[t].pc = "idle") =>
              \A f \in files \ files' :
                  /\ \A j \in Live \ {thr[t].cmd.id} :
                        win.videos[j].file_path # f
                  /\ \A k \in 1..Len(queue) :
                        (queue[k].type \in {"add", "swap"}
                         /\ queue[k].id # thr[t].cmd.id) => queue[k].path # f
    ]_vars

\* no request is between its two steps and no call is queued
Quiescent == queue = << >> /\ \A t \in Threads : thr[t].pc = "idle"

\* C30: whenever every request has returned and every queued call has been
\* delivered, videos_db and the registry hold the same ids.
C30_RecordsAgreeWhenQuiescent ==
    Quiescent => DOMAIN videos_db = Live

\* C31: whenever every request has returned and every queued call has been
\* delivered, and no get-videos request has copied the window's values into
\* videos_db yet, the position, scale and rotation of every videos_db record
\* are those of the track with the same id in the registry.
C31_RecordsMatchTracksWhenQuiescent ==
    (Quiescent /\ ~got.valid) =>
        \A i \in DOMAIN videos_db \cap Live :
            Params(videos_db[i]) = Params(win.videos[i])

\* C32: every track that is marked as looping, in the registry or removed
\* from it, has its position poll timer running.
C32_LoopingImpliesPolling ==
    \A i \in Constructed : Item(i).is_looping => Item(i).position_check_timer

\* C33: between the events of the Qt thread, _batch_updates is set exactly
\* when the batch timer is armed, and every track of the registry whose
\* transform is dirty is in _pending_updates with the batch timer armed -
\* also when a track that is in _pending_updates was removed before the
\* timer fired.
C33_DirtyTracksAreScheduled ==
    /\ win.batch_updates = win.batch_timer
    /\ \A i \in Live :
          win.videos[i].transform_dirty =>
              (i \in win.pending_updates /\ win.batch_timer)

\* a batch is pending that holds a track removed since and a track of the
\* registry that is dirty
C33_Witness ==
    /\ win.batch_timer /\ win.batch_updates
    /\ \E i \in win.pending_updates : i \notin Live /\ i \in DOMAIN released
    /\ \E j \in Live : win.videos[j].transform_dirty /\ j \in win.pending_updates
====
